---- MODULE Spec2Model ----
(***************************************************************************)
(* json_events of jevents.c: the walk over the token array of a JSON event *)
(* file, the per-field translation rules and the callback protocol.        *)
(*                                                                         *)
(* Text is a sequence of one-character strings, so that concatenation,     *)
(* truncation, lower-casing and substring search are computed character by *)
(* character as the C code does.  The token array is read positionally and *)
(* each token is read once, so the type and text of a token are drawn when *)
(* the cursor reaches it.  Objects have distinct keys and an even number   *)
(* of child tokens (what the tokenizer produces for key/value pairs).      *)
(***************************************************************************)
EXTENDS Integers, Sequences, FiniteSets, TLC

\* ---------------------------------------------------------------- bounds
MaxObjs ==
    3
MaxPairs ==
    4
MaxExtra ==
    1

\* ------------------------------------------------------------- constants
EIO ==
    5

\* a char * that holds no buffer
NULL ==
    <<"NULL">>

\* ------------------------------------------------------ string literals
k_event ==
    <<"e", "v", "e", "n", "t", "=">>
k_umask ==
    <<"u", "m", "a", "s", "k", "=">>
k_cmask ==
    <<"c", "m", "a", "s", "k", "=">>
k_inv ==
    <<"i", "n", "v", "=">>
k_any ==
    <<"a", "n", "y", "=">>
k_edge ==
    <<"e", "d", "g", "e", "=">>
k_period ==
    <<"p", "e", "r", "i", "o", "d", "=">>
n_0x3F6 ==
    <<"0", "x", "3", "F", "6">>
n_0x1A6 ==
    <<"0", "x", "1", "A", "6">>
n_0x1A7 ==
    <<"0", "x", "1", "A", "7">>
p_ldlat ==
    <<"l", "d", "l", "a", "t", "=">>
p_offcore_rsp ==
    <<"o", "f", "f", "c", "o", "r", "e", "_", "r", "s", "p", "=">>
s_zero ==
    <<"0">>
s_two ==
    <<"2">>
s_null ==
    <<"n", "u", "l", "l">>
s_PreciseEvent ==
    <<"(", "P", "r", "e", "c", "i", "s", "e", " ", "E", "v", "e", "n", "t", ")">>
s_dotsp ==
    <<".", " ">>
s_SpecUpdate ==
    <<" ", "S", "p", "e", "c", " ", "u", "p", "d", "a", "t", "e", ":", " ">>
s_DataLA ==
    <<" ", "S", "u", "p", "p", "o", "r", "t", "s", " ", "a", "d", "d", "r", "e", "s", "s", " ", "w", "h", "e", "n", " ", "p", "r", "e", "c", "i", "s", "e">>
s_sp ==
    <<" ">>
s_MustBePrecise ==
    <<"(", "M", "u", "s", "t", " ", "b", "e", " ", "p", "r", "e", "c", "i", "s", "e", ")">>
s_PreciseLower ==
    <<"(", "P", "r", "e", "c", "i", "s", "e", " ", "e", "v", "e", "n", "t", ")">>
s_comma ==
    <<",">>
v_InstRetiredAny ==
    <<"I", "N", "S", "T", "_", "R", "E", "T", "I", "R", "E", "D", ".", "A", "N", "Y">>
v_0xc0 ==
    <<"0", "x", "c", "0">>
v_0x0 ==
    <<"0", "x", "0">>
v_InstrRetired ==
    <<"I", "n", "s", "t", "r", "u", "c", "t", "i", "o", "n", "s", " ", "r", "e", "t", "i", "r", "e", "d", ".">>
v_SomeText ==
    <<"S", "o", "m", "e", " ", "t", "e", "x", "t", ".", " ", " ">>
v_0x10aggr ==
    <<"0", "x", "1", "0", ",", "a", "g", "g", "r">>
v_7 ==
    <<"7">>
v_HSD29 ==
    <<"H", "S", "D", "2", "9">>
v_1 ==
    <<"1">>
v_NoDot ==
    <<"N", "o", " ", "d", "o", "t", " ">>
v_Blank ==
    <<" ", " ">>
v_HasPrecise ==
    <<"L", "o", "a", "d", "s", " ", "(", "P", "r", "e", "c", "i", "s", "e", " ", "E", "v", "e", "n", "t", ")">>
v_0x1A6pair ==
    <<"0", "x", "1", "A", "6", ",", "0", "x", "1", "A", "7">>
v_0x999 ==
    <<"0", "x", "9", "9", "9">>
v_Ab ==
    <<"A", "b">>
v_d ==
    <<"D", "d", ".">>
v_x ==
    <<"x">>
r_inst_retired_any ==
    <<"i", "n", "s", "t", "_", "r", "e", "t", "i", "r", "e", "d", ".", "a", "n", "y">>
r_event_0xc0 ==
    <<"e", "v", "e", "n", "t", "=", "0", "x", "c", "0">>
r_event_umask ==
    <<"e", "v", "e", "n", "t", "=", "0", "x", "c", "0", ",", "u", "m", "a", "s", "k", "=", "0", "x", "0">>
r_InstrRetired ==
    <<"I", "n", "s", "t", "r", "u", "c", "t", "i", "o", "n", "s", " ", "r", "e", "t", "i", "r", "e", "d">>
r_SomeText ==
    <<"S", "o", "m", "e", " ", "t", "e", "x", "t">>
r_dot1SpecUpdate ==
    <<".", " ", "S", "p", "e", "c", " ", "u", "p", "d", "a", "t", "e", ":", " ">>
r_dot2SpecUpdate ==
    <<".", " ", " ", "S", "p", "e", "c", " ", "u", "p", "d", "a", "t", "e", ":", " ">>

r_umask_event ==
    <<"u", "m", "a", "s", "k", "=", "0", "x", "0", ",", "e", "v", "e", "n", "t", "=", "0", "x", "1", "0">>
r_event_offcore ==
    <<"e", "v", "e", "n", "t", "=", "0", "x", "c", "0", ",", "o", "f", "f", "c", "o", "r", "e", "_", "r", "s", "p", "=", "7">>

\* ------------------------------------------------------- lookup tables
msrmap ==
    << [num |-> n_0x3F6, pname |-> p_ldlat],
       [num |-> n_0x1A6, pname |-> p_offcore_rsp],
       [num |-> n_0x1A7, pname |-> p_offcore_rsp] >>

fields ==
    << [field |-> "EventCode",        kernel |-> k_event],
       [field |-> "UMask",            kernel |-> k_umask],
       [field |-> "CounterMask",      kernel |-> k_cmask],
       [field |-> "Invert",           kernel |-> k_inv],
       [field |-> "AnyThread",        kernel |-> k_any],
       [field |-> "EdgeDetect",       kernel |-> k_edge],
       [field |-> "SampleAfterValue", kernel |-> k_period] >>

\* ------------------------------------------------------- libc helpers
UpperCase ==
    << "A", "B", "C", "D", "E", "F", "G", "H", "I", "J", "K", "L", "M",
       "N", "O", "P", "Q", "R", "S", "T", "U", "V", "W", "X", "Y", "Z" >>
LowerCase ==
    << "a", "b", "c", "d", "e", "f", "g", "h", "i", "j", "k", "l", "m",
       "n", "o", "p", "q", "r", "s", "t", "u", "v", "w", "x", "y", "z" >>

tolower(c) ==
    IF \E k \in 1..Len(UpperCase) : UpperCase[k] = c
    THEN LowerCase[CHOOSE k \in 1..Len(UpperCase) : UpperCase[k] = c]
    ELSE c

isspace(c) ==
    c \in {" ", "\t", "\n", "\r", "\f"}

\* strstr(s, t) # NULL, for s a buffer
strstr(s, t) ==
    \E k \in 0..(Len(s) - Len(t)) : SubSeq(s, k + 1, k + Len(t)) = t

\* ------------------------------------------------------ pure functions
\* variant: the separator is written in front of the first field as well
addfield_sep(dst, sep, a, bt) ==
    LET old == IF dst # NULL THEN dst ELSE <<>>
        b   == IF bt # NULL THEN bt ELSE <<>>
    IN  old \o sep \o a \o b

addfield(dst, sep, a, bt) ==
    LET olen == IF dst # NULL THEN Len(dst) ELSE 0
        b    == IF bt # NULL THEN bt ELSE <<>>
    IN  IF olen = 0 THEN a \o b ELSE dst \o sep \o a \o b

fixname(s) ==
    [k \in 1..Len(s) |-> tolower(s[k])]

\* position e stops at: the last character that is not white space, 0 when
\* the scan runs off the front of the buffer (e = s - 1)
fixdesc_e(s) ==
    IF \E k \in 1..Len(s) : ~isspace(s[k])
    THEN CHOOSE k \in 1..Len(s) :
            /\ ~isspace(s[k])
            /\ \A m \in (k + 1)..Len(s) : isspace(s[m])
    ELSE 0

\* the text left in s; with e = s - 1 the byte tested and overwritten is
\* the one in front of the buffer, and the text of s stays as it was
fixdesc(s) ==
    LET e == fixdesc_e(s)
    IN  IF e = 0 THEN s
        ELSE IF s[e] = "." THEN SubSeq(s, 1, e - 1)
        ELSE s

\* variant: nothing is cut
cut_comma_keep(val) ==
    val

cut_comma(val) ==
    IF \E k \in 1..Len(val) : val[k] = ","
    THEN SubSeq(val, 1, (CHOOSE k \in 1..Len(val) :
                            /\ val[k] = ","
                            /\ \A m \in 1..(k - 1) : val[m] # ",") - 1)
    ELSE val

\* variant: a hexadecimal zero counts as zero too
IsNz_hex(val) ==
    val \notin {s_zero, v_0x0}

\* nz = !json_streq(map, val, "0")
IsNz(val) ==
    val # s_zero

\* the kernel prefix of the first table row that matches, NULL for none
match_field(field, nz) ==
    IF nz /\ \E k \in 1..Len(fields) : fields[k].field = field
    THEN fields[CHOOSE k \in 1..Len(fields) :
                   /\ fields[k].field = field
                   /\ \A m \in 1..(k - 1) : fields[m].field # field].kernel
    ELSE NULL

\* variant: the index is compared without being cut at its comma
lookup_msr_raw(val) ==
    IF \E k \in 1..Len(msrmap) : msrmap[k].num = val
    THEN msrmap[CHOOSE k \in 1..Len(msrmap) : msrmap[k].num = val].pname
    ELSE NULL

\* the pname of the matching msrmap row, NULL for none
lookup_msr(val) ==
    LET newval == cut_comma(val)
    IN  IF \E k \in 1..Len(msrmap) : msrmap[k].num = newval
        THEN msrmap[CHOOSE k \in 1..Len(msrmap) :
                       /\ msrmap[k].num = newval
                       /\ \A m \in 1..(k - 1) : msrmap[m].num # newval].pname
        ELSE NULL

\* ------------------------------------------------------------- inputs
TokTypes ==
    {"PRIMITIVE", "OBJECT", "ARRAY", "STRING"}

\* values the callback func may return
CallbackRets ==
    {0, 7, -2}

\* what strstr(NULL, ...) may do: fault, or return either answer
StrstrNull ==
    {"segv", "notfound", "found"}

\* the byte in front of a heap buffer
FrontBytes ==
    {".", "NUL"}

Pair(f, v) ==
    [field |-> f, val |-> v]

\* key/value pairs the event files are drawn from
CtlPool ==
    { Pair("EventName", v_Ab), Pair("EventCode", v_1),
      Pair("EventCode", s_zero), Pair("BriefDescription", v_d),
      Pair("Counter", v_x) }

EvtPool ==
    { Pair("EventName", v_InstRetiredAny),
      Pair("EventCode", v_0xc0), Pair("EventCode", v_0x10aggr),
      Pair("UMask", v_0x0), Pair("UMask", s_zero),
      Pair("BriefDescription", v_InstrRetired),
      Pair("MSRIndex", n_0x3F6), Pair("MSRIndex", v_0x1A6pair),
      Pair("MSRIndex", v_0x999),
      Pair("MSRValue", v_7), Pair("PEBS", v_1) }

DescPool ==
    { Pair("EventName", v_Ab), Pair("EventCode", v_1),
      Pair("BriefDescription", v_InstrRetired),
      Pair("BriefDescription", v_SomeText),
      Pair("BriefDescription", v_NoDot),
      Pair("BriefDescription", v_Blank),
      Pair("BriefDescription", <<>>),
      Pair("BriefDescription", v_HasPrecise),
      Pair("PEBS", s_zero), Pair("PEBS", v_1), Pair("PEBS", s_two),
      Pair("Errata", s_null), Pair("Errata", v_HSD29),
      Pair("Data_LA", v_1) }

Keys(p) ==
    { kv.field : kv \in p }

\* -------------------------------------------------------------- state
VARIABLES pc, n, i, j, objsize, tok, len, err, result,
          name, event, desc, msr, msrval, precise, warned,
          live, ub, pool, seen, final, ncalls, lastret, viol

vars ==
    << pc, n, i, j, objsize, tok, len, err, result,
       name, event, desc, msr, msrval, precise, warned,
       live, ub, pool, seen, final, ncalls, lastret, viol >>

NoFinal ==
    [name |-> NULL, event |-> NULL, desc |-> NULL, called |-> FALSE,
     done |-> FALSE]

\* n is tokens->size, the element count the tokenizer recorded for the
\* top-level token
InitWith(p, sizes) ==
    /\ pc = "start"
    /\ n \in sizes
    /\ i = 0 /\ j = 0 /\ objsize = 0 /\ tok = 0 /\ len = 0
    /\ err = -EIO
    /\ result = 0
    /\ name = NULL /\ event = NULL /\ desc = NULL
    /\ msr = NULL /\ msrval = NULL /\ precise = NULL
    /\ warned = FALSE
    /\ live = {} /\ ub = {}
    /\ pool = p
    /\ seen = <<>> /\ final = NoFinal
    /\ ncalls = 0 /\ lastret = 0
    /\ viol = "none"

Init ==
    InitWith(CtlPool, 0..MaxObjs)

InitEvent ==
    InitWith(EvtPool, {1})

InitDesc ==
    InitWith(DescPool, {1})

\* ------------------------------------------------------------ actions
\* EXPECT(e, t, m) with e false: diagnostic, goto out_free; err is not set
ExpectFail(what) ==
    /\ viol' = what
    /\ pc' = "out_free"

\* parse_json returned no tokens
ParseFail ==
    /\ pc = "start"
    /\ result' = -EIO
    /\ pc' = "done"
    /\ UNCHANGED << n, i, j, objsize, tok, len, err, name, event, desc,
                    msr, msrval, precise, warned, live, ub, pool, seen,
                    final, ncalls, lastret, viol >>

CheckTop ==
    /\ pc = "start"
    /\ \E t \in TokTypes :
          IF t = "ARRAY"
          THEN /\ tok' = 1
               /\ i' = 0
               /\ pc' = "loop"
               /\ UNCHANGED viol
          ELSE /\ ExpectFail("top")
               /\ UNCHANGED << tok, i >>
    /\ UNCHANGED << n, j, objsize, len, err, result, name, event, desc,
                    msr, msrval, precise, warned, live, ub, pool, seen,
                    final, ncalls, lastret >>

BeginObject ==
    /\ pc = "loop"
    /\ i < n
    /\ name' = NULL /\ event' = NULL /\ desc' = NULL
    /\ msr' = NULL /\ msrval' = NULL /\ precise' = NULL
    /\ tok' = tok + 1
    /\ seen' = <<>>
    /\ final' = NoFinal
    /\ \E t \in TokTypes, sz \in 0..MaxPairs :
          /\ sz <= Cardinality(Keys(pool))
          /\ IF t = "OBJECT"
             THEN /\ objsize' = 2 * sz
                  /\ j' = 0
                  /\ pc' = "scan"
                  /\ UNCHANGED viol
             ELSE /\ ExpectFail("elem")
                  /\ UNCHANGED << objsize, j >>
    /\ UNCHANGED << n, i, len, err, result, warned, live, ub, pool,
                    ncalls, lastret >>

\* the if / else-if chain applied to one key/value pair; o and before are
\* what the two undefined reads produce when they happen
Translate(st, field, val, o, before) ==
    LET nz   == IsNz(val)
        kern == match_field(field, nz)
        nul  == field = "PEBS" /\ nz /\ st.desc = NULL
        s    == IF nul THEN [st EXCEPT !.ub = @ \cup {"strstr(NULL)"}]
                ELSE st
    IN  IF kern # NULL
        THEN [s EXCEPT !.event = addfield(@, s_comma, kern, cut_comma(val))]
        ELSE IF field = "EventName"
        THEN [s EXCEPT !.name = addfield(@, <<>>, <<>>, val)]
        ELSE IF field = "BriefDescription"
        THEN LET d == addfield(s.desc, <<>>, <<>>, val)
             IN  [s EXCEPT !.desc = fixdesc(d),
                           !.ub = @ \cup
                             (IF fixdesc_e(d) # 0 THEN {}
                              ELSE IF before = "."
                              THEN {"fixdesc reads s[-1]",
                                    "fixdesc writes s[-1]"}
                              ELSE {"fixdesc reads s[-1]"})]
        ELSE IF nul /\ o = "segv"
        THEN [s EXCEPT !.crash = TRUE]
        ELSE IF /\ field = "PEBS"
                /\ nz
                /\ ~(IF nul THEN o = "found"
                     ELSE strstr(s.desc, s_PreciseEvent))
        THEN [s EXCEPT !.precise = val]
        ELSE IF field = "MSRIndex" /\ nz
        THEN [s EXCEPT !.msr = lookup_msr(val),
                       !.warned = @ \/ lookup_msr(val) = NULL]
        ELSE IF field = "MSRValue"
        THEN [s EXCEPT !.msrval = val]
        ELSE IF field = "Errata" /\ val # s_null
        THEN [s EXCEPT !.desc = addfield(@, s_dotsp, s_SpecUpdate, val)]
        ELSE IF field = "Data_LA" /\ nz
        THEN [s EXCEPT !.desc = addfield(@, s_dotsp, s_DataLA, NULL)]
        ELSE s

ScanPair ==
    /\ pc = "scan"
    /\ j < objsize
    /\ \E ft \in TokTypes, vt \in TokTypes :
          IF ft # "STRING"
          THEN /\ ExpectFail("key")
               /\ UNCHANGED << j, name, event, desc, msr, msrval, precise,
                               warned, live, ub, seen >>
          ELSE IF vt # "STRING"
          THEN /\ ExpectFail("val")
               /\ UNCHANGED << j, name, event, desc, msr, msrval, precise,
                               warned, live, ub, seen >>
          ELSE \E kv \in pool, o \in StrstrNull, before \in FrontBytes :
                  LET st == [name |-> name, event |-> event, desc |-> desc,
                             msr |-> msr, msrval |-> msrval,
                             precise |-> precise, warned |-> warned,
                             ub |-> ub, crash |-> FALSE]
                      t  == Translate(st, kv.field, kv.val, o, before)
                  IN  /\ \A k \in 1..Len(seen) : seen[k].field # kv.field
                      /\ name' = t.name
                      /\ event' = t.event
                      /\ desc' = t.desc
                      /\ msr' = t.msr
                      /\ msrval' = t.msrval
                      /\ precise' = t.precise
                      /\ warned' = t.warned
                      /\ ub' = t.ub
                      /\ live' = { b \in {"name", "event", "desc"} :
                                     t[b] # NULL }
                      /\ seen' = Append(seen, kv)
                      /\ IF t.crash
                         THEN pc' = "crashed" /\ j' = j
                         ELSE pc' = "scan" /\ j' = j + 2
                      /\ UNCHANGED viol
    /\ UNCHANGED << n, i, objsize, tok, len, err, result, pool, final,
                    ncalls, lastret >>

\* variant: an object without name or event is passed over as a success
CallResult_skip(nm, ev, r) ==
    IF nm # NULL /\ ev # NULL THEN r ELSE 0

\* err = -EIO; if (name && event) err = func(data, name, event, desc);
CallResult(nm, ev, r) ==
    IF nm # NULL /\ ev # NULL THEN r ELSE -EIO

\* variant: only a negative err leaves the loop
AfterObject_neg(e) ==
    IF e < 0 THEN "after" ELSE "loop"

\* if (err) break; tok += j;
AfterObject(e) ==
    IF e # 0 THEN "after" ELSE "loop"

EndObject ==
    /\ pc = "scan"
    /\ j >= objsize
    /\ \E r \in CallbackRets :
          LET desc1  == IF precise = NULL THEN desc
                        ELSE IF precise = s_two
                        THEN addfield(desc, s_sp, s_MustBePrecise, NULL)
                        ELSE addfield(desc, s_sp, s_PreciseLower, NULL)
              event1 == IF msr # NULL
                        THEN addfield(event, s_comma, msr, msrval)
                        ELSE event
              docall == name # NULL /\ event1 # NULL
              name1  == IF docall THEN fixname(name) ELSE name
              e      == CallResult(name, event1, r)
          IN  /\ docall \/ r = 0
              /\ final' = [name |-> name1, event |-> event1,
                           desc |-> desc1, called |-> docall,
                           done |-> TRUE]
              /\ ncalls' = IF docall THEN ncalls + 1 ELSE ncalls
              /\ lastret' = IF docall THEN r ELSE lastret
              /\ err' = e
              /\ pc' = AfterObject(e)
              /\ tok' = IF pc' = "after" THEN tok ELSE tok + j
              /\ i' = IF pc' = "after" THEN i ELSE i + 1
    \* free(event); free(desc); free(name);
    /\ live' = {}
    /\ name' = NULL /\ event' = NULL /\ desc' = NULL
    /\ UNCHANGED << n, j, objsize, len, result, msr, msrval, precise,
                    warned, ub, pool, seen, viol >>

\* EXPECT(tok - tokens == len, ...); err = 0;  len is the token count of
\* the document: the tokens not yet read are the children of an object
\* left by break, one token at least for each element not visited, and
\* what follows the top-level array
CheckEnd ==
    /\ \/ pc = "after"
       \/ pc = "loop" /\ i >= n
    /\ \E pad \in 0..MaxExtra :
          /\ len' = tok + pad
                    + (IF pc = "after" THEN objsize + (n - 1 - i) ELSE 0)
          /\ IF tok = len'
             THEN /\ err' = 0
                  /\ pc' = "out_free"
                  /\ UNCHANGED viol
             ELSE /\ ExpectFail("count")
                  /\ UNCHANGED err
    /\ UNCHANGED << n, i, j, objsize, tok, result, name, event, desc,
                    msr, msrval, precise, warned, live, ub, pool, seen,
                    final, ncalls, lastret >>

\* out_free: free_json(map, size, tokens); return err;
OutFree ==
    /\ pc = "out_free"
    /\ result' = err
    /\ pc' = "done"
    /\ UNCHANGED << n, i, j, objsize, tok, len, err, name, event, desc,
                    msr, msrval, precise, warned, live, ub, pool, seen,
                    final, ncalls, lastret, viol >>

Next ==
    \/ ParseFail
    \/ CheckTop
    \/ BeginObject
    \/ ScanPair
    \/ EndObject
    \/ CheckEnd
    \/ OutFree

Spec ==
    Init /\ [][Next]_vars

SpecEvent ==
    InitEvent /\ [][Next]_vars

SpecDesc ==
    InitDesc /\ [][Next]_vars

TypeOK ==
    /\ pc \in {"start", "loop", "scan", "after", "out_free", "done",
               "crashed"}
    /\ live \subseteq {"name", "event", "desc"}
    /\ tok >= 0 /\ i <= n

\* ------------------------------------------------------------ claims
\* the object most recently visited ended its scan without name or event
Incomplete ==
    final.done /\ ~final.called

\* C1: whenever a structural violation is detected (and no callback asked
\* to stop), json_events returns a negative error code
C1_ViolationNegative ==
    (pc = "done" /\ viol # "none" /\ lastret = 0) => result < 0

\* C2 (as claimed): an incomplete object is skipped and, nothing else being
\* wrong with the document, the call returns 0
C2_IncompleteSkipped ==
    (pc = "done" /\ Incomplete /\ len = tok + objsize + (n - 1 - i))
        => result = 0

\* C2 (amended): an incomplete object gets no callback and ends the
\* iteration: every element before it was delivered, none after it is
\* visited, and the call returns -EIO, or 0 when the cursor just past the
\* object already equals the token count
C2_IncompleteStops ==
    Incomplete =>
        /\ pc \in {"after", "out_free", "done"}
        /\ ncalls = i
        /\ pc = "done" => result = (IF tok = len THEN 0 ELSE -EIO)

C2_Witness ==
    /\ pc = "done" /\ Incomplete
    /\ n = 3 /\ i = 1 /\ ncalls = 1
    /\ Len(seen) > 0
    /\ result = -EIO

C10_AllReleased ==
    pc = "done" => live = {}

\* ------------------------------------------- claims on the event string
Has(key) ==
    \E k \in 1..Len(seen) : seen[k].field = key

ValOf(key) ==
    seen[CHOOSE k \in 1..Len(seen) : seen[k].field = key].val

HasSub(s, t) ==
    /\ s # NULL
    /\ \E k \in 0..(Len(s) - Len(t)) : SubSeq(s, k + 1, k + Len(t)) = t

EndsWith(s, t) ==
    /\ s # NULL
    /\ Len(s) >= Len(t)
    /\ SubSeq(s, Len(s) - Len(t) + 1, Len(s)) = t

StartsWith(s, t) ==
    /\ s # NULL
    /\ Len(s) >= Len(t)
    /\ SubSeq(s, 1, Len(t)) = t

RECURSIVE BeforeComma(_)
BeforeComma(v) ==
    IF v = <<>> \/ Head(v) = "," THEN <<>>
    ELSE <<Head(v)>> \o BeforeComma(Tail(v))

IsTable(f) ==
    \E k \in 1..Len(fields) : fields[k].field = f

PrefixOf(f) ==
    fields[CHOOSE k \in 1..Len(fields) : fields[k].field = f].kernel

\* <prefix><value> of each table-driven field with a value other than "0",
\* in the order of the pairs s
RECURSIVE EventClauses(_)
EventClauses(s) ==
    IF s = <<>> THEN <<>>
    ELSE LET kv == Head(s)
         IN  IF IsTable(kv.field) /\ kv.val # s_zero
             THEN <<PrefixOf(kv.field) \o BeforeComma(kv.val)>>
                      \o EventClauses(Tail(s))
             ELSE EventClauses(Tail(s))

RECURSIVE JoinComma(_)
JoinComma(cs) ==
    IF cs = <<>> THEN <<>>
    ELSE IF Len(cs) = 1 THEN cs[1]
    ELSE cs[1] \o <<",">> \o JoinComma(Tail(cs))

\* every clause of cs occurs in ev with a comma in front, in this order
RECURSIVE CommaClausesIn(_, _)
CommaClausesIn(cs, ev) ==
    \/ cs = <<>>
    \/ \E k \in 0..(Len(ev) - Len(cs[1]) - 1) :
          /\ SubSeq(ev, k + 1, k + 1 + Len(cs[1])) = <<",">> \o cs[1]
          /\ CommaClausesIn(Tail(cs), SubSeq(ev, k + 2 + Len(cs[1]), Len(ev)))

LowerCased(v) ==
    [k \in 1..Len(v) |-> tolower(v[k])]

\* an object with EventName and a non-zero table-driven field, scanned to
\* its end
C4Case ==
    /\ final.done
    /\ Has("EventName")
    /\ EventClauses(seen) # <<>>

RoundTrip ==
    << Pair("EventName", v_InstRetiredAny), Pair("EventCode", v_0xc0),
       Pair("UMask", v_0x0), Pair("BriefDescription", v_InstrRetired) >>

\* the call is over for the document of the one object RoundTrip
C5Case ==
    /\ pc = "done"
    /\ n = 1
    /\ final.done
    /\ seen = RoundTrip
    /\ len = 10

\* C5 (as claimed): one callback call with name inst_retired.any, event
\* exactly event=0xc0, description Instructions retired; returns 0
C5_UMaskSuppressed ==
    C5Case =>
        /\ ncalls = 1
        /\ final.name = r_inst_retired_any
        /\ final.event = r_event_0xc0
        /\ final.desc = r_InstrRetired
        /\ lastret = 0 => result = 0

\* C5 (amended): one callback call with name inst_retired.any, event
\* exactly event=0xc0,umask=0x0 (only the literal "0" is suppressed),
\* description Instructions retired; returns what the callback returned
C5_UMaskKept ==
    C5Case =>
        /\ ncalls = 1
        /\ final.called
        /\ final.name = r_inst_retired_any
        /\ final.event = r_event_umask
        /\ final.desc = r_InstrRetired
        /\ result = lastret

C5_Witness ==
    /\ C5Case
    /\ lastret = 0
    /\ result = 0
    /\ final.event = r_event_umask

InMsrTable(num) ==
    \E k \in 1..Len(msrmap) : msrmap[k].num = num

MsrPrefix(num) ==
    msrmap[CHOOSE k \in 1..Len(msrmap) : msrmap[k].num = num].pname

\* an object with an MSRIndex found in the table and an MSRValue, scanned
\* to its end
C9Case ==
    /\ final.done
    /\ Has("MSRIndex")
    /\ Has("MSRValue")
    /\ InMsrTable(BeforeComma(ValOf("MSRIndex")))

C9Clause ==
    MsrPrefix(BeforeComma(ValOf("MSRIndex"))) \o ValOf("MSRValue")

\* C9 (as claimed): the final event string contains ,<prefix>V
C9_CommaMsrClause ==
    C9Case => HasSub(final.event, <<",">> \o C9Clause)

\* C9 (amended): the final event string is the table-driven clauses in
\* input order followed by <prefix>V, all joined by commas; with no
\* table-driven clause it is <prefix>V alone, without a comma
C9_MsrClauseLast ==
    C9Case =>
        final.event = JoinComma(EventClauses(seen) \o <<C9Clause>>)

C9_Witness ==
    /\ C9Case
    /\ seen[1].field = "MSRValue"
    /\ ValOf("MSRIndex") = v_0x1A6pair
    /\ final.event = r_event_offcore

\* ------------------------------------------- claims on the description
\* the step that translates a pair with the given key
StepOf(key) ==
    /\ pc = "scan"
    /\ Len(seen') = Len(seen) + 1
    /\ seen'[Len(seen')].field = key

Text(s) ==
    IF s = NULL THEN <<>> ELSE s

\* C6 (as claimed): Errata "null" leaves desc as it is, any other value X
\* leaves desc containing ". Spec update: X"
C6_ErrataOneSpace ==
    [][StepOf("Errata") =>
          LET X == seen'[Len(seen')].val
          IN  IF X = s_null THEN desc' = desc
              ELSE HasSub(desc', r_dot1SpecUpdate \o X)]_vars

\* C6 (amended): Errata "null" leaves desc as it is; any other value X
\* makes an empty desc " Spec update: X" (no period) and extends a desc
\* holding text by ".  Spec update: X" (period, two spaces)
C6_ErrataAppended ==
    [][StepOf("Errata") =>
          LET X == seen'[Len(seen')].val
          IN  IF X = s_null THEN desc' = desc
              ELSE IF Text(desc) = <<>> THEN desc' = s_SpecUpdate \o X
              ELSE desc' = desc \o r_dot2SpecUpdate \o X]_vars

C6_Witness ==
    /\ pc = "scan"
    /\ seen # <<>>
    /\ seen[Len(seen)] = Pair("Errata", v_HSD29)
    /\ desc = r_InstrRetired \o r_dot2SpecUpdate \o v_HSD29

RECURSIVE StripSpace(_)
StripSpace(s) ==
    IF s # <<>> /\ isspace(s[Len(s)])
    THEN StripSpace(SubSeq(s, 1, Len(s) - 1))
    ELSE s

StripDot(s) ==
    IF s # <<>> /\ s[Len(s)] = "." THEN SubSeq(s, 1, Len(s) - 1) ELSE s

\* C7: after BriefDescription is processed desc is the text with the value
\* appended, its trailing white space removed and then one trailing period
\* removed, and nothing outside the buffer is read or written
C7_BriefDescriptionStripped ==
    [][StepOf("BriefDescription") =>
          /\ desc' = StripDot(StripSpace(Text(desc) \o seen'[Len(seen')].val))
          /\ ub' = ub]_vars

PebsAt ==
    CHOOSE k \in 1..Len(seen) : seen[k].field = "PEBS"

\* the description held "(Precise Event)" when the PEBS field was visited
PreciseBeforePebs ==
    \E k \in 1..(PebsAt - 1) :
        /\ seen[k].field = "BriefDescription"
        /\ HasSub(seen[k].val, s_PreciseEvent)

\* C8: wherever the PEBS field stands, value "2" gives a final desc ending
\* with "(Must be precise)", another non-zero value one ending with
\* "(Precise event)", and "0" adds nothing
C8_PebsAnnotated ==
    (Has("PEBS") /\ ~PreciseBeforePebs) =>
        /\ pc # "crashed"
        /\ final.done =>
              IF ValOf("PEBS") = s_two
              THEN EndsWith(final.desc, s_MustBePrecise)
              ELSE IF ValOf("PEBS") # s_zero
              THEN EndsWith(final.desc, s_PreciseLower)
              ELSE /\ ~EndsWith(final.desc, s_MustBePrecise)
                   /\ ~EndsWith(final.desc, s_PreciseLower)
====
